---- MODULE Spec2Model ----
(***************************************************************************)
(* Air_quality.py: a Streamlit dashboard over a synthetic air-quality      *)
(* dataset.  load_data(n) seeds numpy's global generator with 42, draws    *)
(* nine columns of n values, adds a date column and a derived AQI column,  *)
(* and is memoised by st.cache_data.  The sidebar form computes a          *)
(* rule-based AQI prediction and its category.                             *)
(*                                                                         *)
(* Numbers.  Every real quantity is a fixed-point integer in hundredths    *)
(* (50.0 is 5000, 0.1 is 10); a weight times a value is therefore in       *)
(* ten-thousandths (AQI 500 is 5000000).  Floating-point rounding is not   *)
(* modelled.                                                               *)
(*                                                                         *)
(* Randomness.  numpy's generator is a deterministic cycle of states.  mt  *)
(* is the sequence of unit samples it yields from the state that           *)
(* np.random.seed(42) installs; which sequence that is lies outside the    *)
(* repository, so Init chooses it and no step changes it.  rng is the      *)
(* current position in the cycle.                                          *)
(***************************************************************************)
EXTENDS Integers, Sequences, FiniteSets, TLC

VARIABLES mt, rng, cache, returned, df, selected_pollutant, inputs, shown

vars == <<mt, rng, cache, returned, df, selected_pollutant, inputs, shown>>

(* ------------------------------ bounds -------------------------------- *)

\* The length of the generator's cycle of unit samples.
Period == 6

\* A unit sample is k / UDen with k in 0 .. UDen-1, that is, a real in [0,1).
UDen == 1000

\* Direct calls load_data(n) are explored for n in MinN .. MaxN.
MaxN == 2

\* The least n explored; a negative size is the error case.
MinN == 0 - 1

\* The unit samples explored: the least and the greatest.
Samples == {0, UDen - 1}

(* ----------------------------- fixed point ---------------------------- *)

\* The integer or decimal literal x.yy as a number of hundredths.
Fix(units, hundredths) == units * 100 + hundredths

\* Python's min and max of two numbers.
Min(a, b) == IF a <= b THEN a ELSE b

Max(a, b) == IF a >= b THEN a ELSE b

(* --------------------------- numpy generator -------------------------- *)

\* A variant without the seed call: the generator stays where it is.
SeedNone(r) == r

\* np.random.seed(42): the generator restarts at the head of mt.
Seed(r) == 0

\* The k-th unit sample drawn from generator state r.
Draw(r, k) == mt[(r + k) % Period]

\* The generator state after count draws from r.
Advance(r, count) == (r + count) % Period

\* A variant with the upper end included, as random.randint has it.
RandIntInclusive(low, high, u) == low + ((high - low + 1) * u) \div UDen

\* np.random.randint(low, high): an integer of [low, high), from unit sample
\* u.  numpy's rejection sampling is not modelled, only its range.
RandInt(low, high, u) == low + ((high - low) * u) \div UDen

\* A variant that scales by high instead of high - low.
UniformNoOffset(low, high, u) == low + (high * u) \div UDen

\* np.random.uniform(low, high): low + (high - low) * u, in hundredths.
Uniform(low, high, u) == low + ((high - low) * u) \div UDen

(* ----------------------------- date_range ----------------------------- *)

\* Dates are <<year, month, day>>.
IsLeap(y) == (y % 4 = 0 /\ y % 100 # 0) \/ y % 400 = 0

\* The number of days of year y.
YearLen(y) == IF IsLeap(y) THEN 366 ELSE 365

\* The number of days of a common year that precede each month.
CumDays == <<0, 31, 59, 90, 120, 151, 181, 212, 243, 273, 304, 334>>

\* The number of days of year y that precede its month m.
DaysBeforeMonth(y, m) == CumDays[m] + (IF m > 2 /\ IsLeap(y) THEN 1 ELSE 0)

RECURSIVE FromOrdinal(_, _)
\* The calendar date of the k-th day (1-based) counted from 1 January of y.
FromOrdinal(y, k) ==
    IF k > YearLen(y) THEN FromOrdinal(y + 1, k - YearLen(y))
    ELSE LET m == CHOOSE mm \in 1 .. 12 :
                      /\ DaysBeforeMonth(y, mm) < k
                      /\ (mm = 12 \/ k <= DaysBeforeMonth(y, mm + 1))
         IN <<y, m, k - DaysBeforeMonth(y, m)>>

\* The start of the range, "2023-01-01".
StartDate == <<2023, 1, 1>>

\* A variant with freq="W": the start plus i whole weeks.
DateRangeWeekly(n) ==
    [i \in 1 .. n |->
        FromOrdinal(StartDate[1],
                    DaysBeforeMonth(StartDate[1], StartDate[2]) + StartDate[3]
                    + 7 * (i - 1))]

\* pd.date_range("2023-01-01", periods=n, freq="D"): the start plus i whole
\* days, for i = 0 .. n-1.
DateRange(n) ==
    [i \in 1 .. n |->
        FromOrdinal(StartDate[1],
                    DaysBeforeMonth(StartDate[1], StartDate[2]) + StartDate[3]
                    + (i - 1))]

(* ------------------------------ load_data ----------------------------- *)

\* def load_data(n=200)
DefaultN == 200

\* The sizes the memo and the record of returned results are kept for.
NRange == (MinN .. MaxN) \cup {DefaultN}

\* A variant in which Temperature enters the sum.
AQIWithWeather(row) ==
    Min(Max(40 * row.PM25 + 20 * row.PM10 + 15 * row.NO2 + 10 * row.SO2
            + 1000 * row.CO + 5 * row.O3 + 10 * row.Temperature, 0),
        Fix(Fix(500, 0), 0))

\* The AQI column of one row: the weighted sum, then .clip(0, 500).
AQIColumn(row) ==
    Min(Max(40 * row.PM25 + 20 * row.PM10 + 15 * row.NO2 + 10 * row.SO2
            + 1000 * row.CO + 5 * row.O3, 0),
        Fix(Fix(500, 0), 0))

\* Row i (1-based) of the nine drawn columns: column j holds draws
\* j*n .. j*n + n-1 of the call, in the order the dict literal lists them.
RawRow(n, r, i) ==
    [PM25        |-> Fix(RandInt(10, 300, Draw(r, 0 * n + i - 1)), 0),
     PM10        |-> Fix(RandInt(20, 400, Draw(r, 1 * n + i - 1)), 0),
     NO2         |-> Fix(RandInt(5, 150, Draw(r, 2 * n + i - 1)), 0),
     SO2         |-> Fix(RandInt(2, 80, Draw(r, 3 * n + i - 1)), 0),
     CO          |-> Uniform(Fix(0, 10), Fix(5, 0), Draw(r, 4 * n + i - 1)),
     O3          |-> Fix(RandInt(10, 250, Draw(r, 5 * n + i - 1)), 0),
     Temperature |-> Uniform(Fix(10, 0), Fix(40, 0), Draw(r, 6 * n + i - 1)),
     Humidity    |-> Uniform(Fix(20, 0), Fix(90, 0), Draw(r, 7 * n + i - 1)),
     Wind        |-> Uniform(Fix(0, 0), Fix(10, 0), Draw(r, 8 * n + i - 1)),
     date        |-> DateRange(n)[i]]

\* df["AQI"] = ...: the row with its AQI column appended.
WithAQI(row) ==
    [PM25 |-> row.PM25, PM10 |-> row.PM10, NO2 |-> row.NO2, SO2 |-> row.SO2,
     CO |-> row.CO, O3 |-> row.O3, Temperature |-> row.Temperature,
     Humidity |-> row.Humidity, Wind |-> row.Wind, date |-> row.date,
     AQI |-> AQIColumn(row)]

\* The body of load_data(n), run from generator state r0.  A negative size
\* makes np.random.randint raise ValueError, after the seed was set.
LoadDataBody(n, r0) ==
    LET r == Seed(r0) IN
    IF n < 0
    THEN [kind |-> "ValueError", value |-> <<>>, rng |-> r]
    ELSE [kind  |-> "ok",
          value |-> [i \in 1 .. n |-> WithAQI(RawRow(n, r, i))],
          rng   |-> Advance(r, 9 * n)]

\* A memo slot without an entry.
NoEntry == [hit |-> FALSE, value |-> <<>>]

\* No direct call with this n has returned yet.
NoCall == [kind |-> "none", value |-> <<>>]

\* @st.cache_data: a call load_data(n) through the memo.  A hit returns the
\* stored value and runs nothing; a miss runs the body and stores what it
\* returns; an exception is not stored.
Call(n) ==
    IF cache[n].hit
    THEN [kind |-> "ok", value |-> cache[n].value, rng |-> rng, cache |-> cache]
    ELSE LET res == LoadDataBody(n, rng) IN
         [kind  |-> res.kind,
          value |-> res.value,
          rng   |-> res.rng,
          cache |-> IF res.kind = "ok"
                    THEN [cache EXCEPT ![n] = [hit |-> TRUE, value |-> res.value]]
                    ELSE cache]

(* ------------------------------- widgets ------------------------------ *)

\* The selectbox options.
pollutants == <<"PM2.5", "PM10", "NO2", "SO2", "CO", "O3">>

\* The nine sidebar widgets.
Fields == {"pm25", "pm10", "no2", "so2", "co", "o3", "temp", "humid", "wind"}

\* The value= of each st.sidebar.number_input.
DefaultInputs ==
    [pm25 |-> Fix(50, 0), pm10 |-> Fix(80, 0), no2 |-> Fix(30, 0),
     so2 |-> Fix(20, 0), co |-> Fix(1, 0), o3 |-> Fix(40, 0),
     temp |-> Fix(25, 0), humid |-> Fix(60, 0), wind |-> Fix(2, 0)]

\* The min_value= of each st.sidebar.number_input.
WidgetMin ==
    [pm25 |-> Fix(0, 0), pm10 |-> Fix(0, 0), no2 |-> Fix(0, 0),
     so2 |-> Fix(0, 0), co |-> Fix(0, 0), o3 |-> Fix(0, 0),
     temp |-> 0 - Fix(10, 0), humid |-> Fix(0, 0), wind |-> Fix(0, 0)]

\* The max_value= of each st.sidebar.number_input.
WidgetMax ==
    [pm25 |-> Fix(500, 0), pm10 |-> Fix(500, 0), no2 |-> Fix(200, 0),
     so2 |-> Fix(200, 0), co |-> Fix(50, 0), o3 |-> Fix(300, 0),
     temp |-> Fix(50, 0), humid |-> Fix(100, 0), wind |-> Fix(20, 0)]

\* A number_input accepts a value only within [min_value, max_value].
WidgetAccepts(f, v) == WidgetMin[f] <= v /\ v <= WidgetMax[f]

\* The values a user is taken to type into each widget.  -1.00 and 50.01
\* lie outside the widget's range.
InputChoices ==
    [pm25  |-> {0 - Fix(1, 0), Fix(0, 0)},
     pm10  |-> {Fix(80, 0)},
     no2   |-> {Fix(30, 0)},
     so2   |-> {Fix(20, 0)},
     co    |-> {Fix(50, 0), Fix(50, 1)},
     o3    |-> {Fix(40, 0)},
     temp  |-> {0 - Fix(10, 0)},
     humid |-> {Fix(60, 0)},
     wind  |-> {Fix(2, 0)}]

\* The pollutant vectors the scoring expression is applied to: the
\* defaults, zero, and the values that put the sum on and just above each
\* threshold.  The weather inputs keep their defaults.
ScoreDomain ==
    [pm25 : {0 - Fix(1, 0), Fix(0, 0), Fix(50, 0), Fix(125, 0), Fix(250, 0),
             Fix(500, 0)},
     pm10 : {Fix(0, 0), Fix(80, 0), Fix(500, 0)},
     no2 : {Fix(0, 0), Fix(30, 0)},
     so2 : {Fix(0, 0), Fix(0, 10), Fix(20, 0)},
     co : {0 - Fix(1, 0), Fix(0, 0), Fix(1, 0), Fix(50, 0)},
     o3 : {Fix(0, 0), Fix(40, 0)},
     temp : {Fix(25, 0)}, humid : {Fix(60, 0)}, wind : {Fix(2, 0)}]

(* ----------------------------- Predict AQI ---------------------------- *)

\* The rule-based formula, in ten-thousandths.
PredictionRaw(inp) ==
    40 * inp.pm25 + 20 * inp.pm10 + 15 * inp.no2 + 10 * inp.so2
    + 1000 * inp.co + 5 * inp.o3

\* A variant without the min.
PredictionUnclamped(inp) == PredictionRaw(inp)

\* A variant that clips below as well, as the dataset's .clip(0, 500) does.
PredictionClipped(inp) ==
    Max(0, Min(PredictionRaw(inp), Fix(Fix(500, 0), 0)))

\* prediction = min(prediction, 500)
Prediction(inp) == Min(PredictionRaw(inp), Fix(Fix(500, 0), 0))

\* A variant of the chain with < in place of <=.
CategoryStrict(p) ==
    IF p < Fix(Fix(50, 0), 0) THEN "Good"
    ELSE IF p < Fix(Fix(100, 0), 0) THEN "Moderate"
    ELSE IF p < Fix(Fix(200, 0), 0) THEN "Poor"
    ELSE IF p < Fix(Fix(300, 0), 0) THEN "Very Poor"
    ELSE "Severe"

\* The if / elif chain over the prediction: the category.
Category(p) ==
    IF p <= Fix(Fix(50, 0), 0) THEN "Good"
    ELSE IF p <= Fix(Fix(100, 0), 0) THEN "Moderate"
    ELSE IF p <= Fix(Fix(200, 0), 0) THEN "Poor"
    ELSE IF p <= Fix(Fix(300, 0), 0) THEN "Very Poor"
    ELSE "Severe"

\* The if / elif chain over the prediction: the bar's colour.
Color(p) ==
    IF p <= Fix(Fix(50, 0), 0) THEN "green"
    ELSE IF p <= Fix(Fix(100, 0), 0) THEN "yellow"
    ELSE IF p <= Fix(Fix(200, 0), 0) THEN "orange"
    ELSE IF p <= Fix(Fix(300, 0), 0) THEN "red"
    ELSE "darkred"

\* f"{prediction:.2f}": the prediction rounded to hundredths, ties to even.
Format2f(p) ==
    LET q == p \div 100
        r == p % 100
    IN IF r > 50 \/ (r = 50 /\ q % 2 = 1) THEN q + 1 ELSE q

\* A run in which neither button was pressed renders neither.
NothingShown ==
    [pairplot |-> FALSE, predicted |-> FALSE, prediction |-> 0, text |-> 0,
     category |-> "", color |-> ""]

\* What a run of the script renders below the fixed sections: the pair plot
\* when its button was pressed, the prediction when "Predict AQI" was.
Rendered(inp, pairBtn, predBtn) ==
    IF predBtn
    THEN [pairplot   |-> pairBtn,
          predicted  |-> TRUE,
          prediction |-> Prediction(inp),
          text       |-> Format2f(Prediction(inp)),
          category   |-> Category(Prediction(inp)),
          color      |-> Color(Prediction(inp))]
    ELSE [NothingShown EXCEPT !.pairplot = pairBtn]

(* ------------------------------- actions ------------------------------ *)

\* A direct call load_data(n).
LoadData(n) ==
    \E c \in {Call(n)} :
    /\ rng' = c.rng
    /\ cache' = c.cache
    /\ returned' = [returned EXCEPT ![n] = [kind |-> c.kind, value |-> c.value]]
    /\ UNCHANGED <<mt, df, selected_pollutant, inputs, shown>>

\* load_data.clear(), Streamlit's "Clear cache": every memo entry is dropped.
ClearCache ==
    /\ \E n \in NRange : cache[n].hit
    /\ cache' = [n \in NRange |-> NoEntry]
    /\ UNCHANGED <<mt, rng, returned, df, selected_pollutant, inputs, shown>>

\* A variant in which the pair plot overwrites a cell of df.
AfterDisplayDropsHead(rows, sel, pairBtn) ==
    IF pairBtn THEN [rows EXCEPT ![1].AQI = 0] ELSE rows

\* The sections that read df: head(), histplot, lineplot, corr(), pairplot.
\* Each builds a new object from df; this is df as the run leaves it.
AfterDisplay(rows, sel, pairBtn) == rows

\* One run of the script, top to bottom, with the widget state given:
\* df = load_data(), the display sections, the sidebar, the two buttons.
RunScript(sel, inp, pairBtn, predBtn) ==
    \E c \in {Call(DefaultN)} :
    /\ rng' = c.rng
    /\ cache' = c.cache
    /\ df' = IF c.kind = "ok"
             THEN [loaded |-> TRUE, rows |-> AfterDisplay(c.value, sel, pairBtn)]
             ELSE [loaded |-> FALSE, rows |-> <<>>]
    /\ selected_pollutant' = sel
    /\ inputs' = inp
    /\ shown' = IF c.kind = "ok" THEN Rendered(inp, pairBtn, predBtn)
                ELSE NothingShown
    /\ UNCHANGED <<mt, returned>>

\* A new session opens the page: every widget holds its default.
PageLoad == RunScript(pollutants[1], DefaultInputs, FALSE, FALSE)

\* The user picks a pollutant in the selectbox.
SelectPollutant(p) == RunScript(p, inputs, FALSE, FALSE)

\* The user presses "Generate Pairplot".
GeneratePairplot == RunScript(selected_pollutant, inputs, TRUE, FALSE)

\* The user types v into sidebar widget f.
ChangeInput(f, v) ==
    /\ WidgetAccepts(f, v)
    /\ RunScript(selected_pollutant, [inputs EXCEPT ![f] = v], FALSE, FALSE)

\* The user presses "Predict AQI".
PredictAQI == RunScript(selected_pollutant, inputs, FALSE, TRUE)

(* --------------------------- specifications --------------------------- *)

\* Before the first run: nothing cached, nothing returned, nothing rendered.
InitCommon ==
    /\ cache = [n \in NRange |-> NoEntry]
    /\ returned = [n \in NRange |-> NoCall]
    /\ df = [loaded |-> FALSE, rows |-> <<>>]
    /\ selected_pollutant = pollutants[1]
    /\ shown = NothingShown

\* The generator sequences that alternate between the two samples.
Alternating ==
    {[p \in 0 .. Period - 1 |-> IF p % 2 = 0 THEN a ELSE (UDen - 1) - a] :
        a \in Samples}

\* The dashboard.  The process starts with the generator in a state the
\* operating system's entropy picked.
Init ==
    /\ mt \in Alternating
    /\ rng \in 0 .. Period - 1
    /\ inputs = DefaultInputs
    /\ InitCommon

Next ==
    \/ PageLoad
    \/ \E p \in {pollutants[k] : k \in 1 .. Len(pollutants)} : SelectPollutant(p)
    \/ GeneratePairplot
    \/ \E f \in Fields : \E v \in InputChoices[f] : ChangeInput(f, v)
    \/ PredictAQI
    \/ ClearCache

Spec == Init /\ [][Next]_vars

\* Direct calls of load_data, over every sequence of samples.
InitGen ==
    /\ mt \in [0 .. Period - 1 -> Samples]
    /\ rng \in 0 .. Period - 1
    /\ inputs = DefaultInputs
    /\ InitCommon

NextGen ==
    \/ \E n \in MinN .. MaxN : LoadData(n)
    \/ ClearCache

SpecGen == InitGen /\ [][NextGen]_vars

\* Direct calls of load_data, the default size included, over the
\* alternating sequences.
InitCalls ==
    /\ mt \in Alternating
    /\ rng \in 0 .. Period - 1
    /\ inputs = DefaultInputs
    /\ InitCommon

NextCalls ==
    \/ \E n \in NRange : LoadData(n)
    \/ ClearCache

SpecCalls == InitCalls /\ [][NextCalls]_vars

\* The scoring expression as a function of the pollutant vector: the
\* vector is drawn from ScoreDomain and "Predict AQI" scores it.
InitScore ==
    /\ mt \in {[p \in 0 .. Period - 1 |-> IF p % 2 = 0 THEN 0 ELSE UDen - 1]}
    /\ rng = 0
    /\ inputs \in ScoreDomain
    /\ InitCommon

NextScore == PredictAQI

SpecScore == InitScore /\ [][NextScore]_vars

\* The same, over the vectors the sidebar widgets accept.
InitForm ==
    /\ InitScore
    /\ \A f \in Fields : WidgetAccepts(f, inputs[f])

SpecForm == InitForm /\ [][NextScore]_vars

(* ------------------------------- claims ------------------------------- *)

\* Every row that some direct call load_data(n) has returned.
ReturnedRows ==
    UNION {{returned[n].value[i] : i \in 1 .. Len(returned[n].value)} :
              n \in {m \in NRange : returned[m].kind = "ok"}}

\* C1: in every row of a dataset returned by load_data(n), AQI equals
\* 0.4*PM2.5 + 0.2*PM10 + 0.15*NO2 + 0.1*SO2 + 10*CO + 0.05*O3 of that row
\* clamped to [0, 500]; Temperature, Humidity and Wind do not enter it.
C1_AQIIsWeightedSum ==
    \A row \in ReturnedRows :
        LET sum == 40 * row.PM25 + 20 * row.PM10 + 15 * row.NO2
                   + 10 * row.SO2 + 1000 * row.CO + 5 * row.O3
        IN row.AQI = (IF sum < 0 THEN 0
                      ELSE IF sum > 5000000 THEN 5000000 ELSE sum)

\* C1 witness: a two-row dataset was returned whose rows differ in PM2.5 and
\* whose first row mixes a lowest with a highest pollutant.
C1_Witness ==
    /\ returned[2].kind = "ok"
    /\ returned[2].value[1].PM25 = 1000
    /\ returned[2].value[1].PM10 = 39900
    /\ returned[2].value[2].PM25 = 29900
    /\ returned[2].value[1].AQI # returned[2].value[2].AQI

\* C4: once load_data(n) has returned, every later call with the same n
\* returns the same result, whatever calls and cache clears lie in between.
C4_Deterministic ==
    [][\A n \in NRange :
          returned[n].kind # "none" => returned'[n] = returned[n]]_vars

\* C4 witness: load_data(1) and load_data(2) have returned different data,
\* the cache is empty again and the generator is not where the seed puts it,
\* so the next call of either runs the body anew.
C4_Witness ==
    /\ returned[1].kind = "ok"
    /\ returned[2].kind = "ok"
    /\ returned[1].value[1] # returned[2].value[1]
    /\ \A n \in NRange : ~cache[n].hit
    /\ rng # 0

\* C5 as stated: a call with n <= 0 fails with an invalid-argument error
\* and returns no dataset.
C5_NonPositiveFails ==
    \A n \in NRange :
        (n <= 0 /\ returned[n].kind # "none") => returned[n].kind = "ValueError"

\* C7: in every row of a generated dataset each field lies in its half-open
\* domain and AQI lies in [0, 500].
C7_FieldsInDomain ==
    \A row \in ReturnedRows :
        /\ 1000 <= row.PM25 /\ row.PM25 < 30000 /\ row.PM25 % 100 = 0
        /\ 2000 <= row.PM10 /\ row.PM10 < 40000 /\ row.PM10 % 100 = 0
        /\ 500 <= row.NO2 /\ row.NO2 < 15000 /\ row.NO2 % 100 = 0
        /\ 200 <= row.SO2 /\ row.SO2 < 8000 /\ row.SO2 % 100 = 0
        /\ 10 <= row.CO /\ row.CO < 500
        /\ 1000 <= row.O3 /\ row.O3 < 25000 /\ row.O3 % 100 = 0
        /\ 1000 <= row.Temperature /\ row.Temperature < 4000
        /\ 2000 <= row.Humidity /\ row.Humidity < 9000
        /\ 0 <= row.Wind /\ row.Wind < 1000
        /\ 0 <= row.AQI /\ row.AQI <= 5000000

\* C7 witness: a returned row holds the greatest integer of one domain and
\* the least value of another.
C7_Witness ==
    \E row \in ReturnedRows :
        /\ row.PM25 = 29900
        /\ row.SO2 = 7900
        /\ row.CO = 10
        /\ row.Temperature > 3900

\* The six pollutant inputs of the sidebar.
PollutantInputs == {"pm25", "pm10", "no2", "so2", "co", "o3"}

\* The weighted sum of the current sidebar inputs, in ten-thousandths.
FormSum ==
    40 * inputs.pm25 + 20 * inputs.pm10 + 15 * inputs.no2 + 10 * inputs.so2
    + 1000 * inputs.co + 5 * inputs.o3

\* C2: for a submission with non-negative pollutant inputs the predicted
\* aqi is the weighted sum when that is at most 500 and exactly 500
\* otherwise; the default inputs 50, 80, 30, 20, 1, 40 give 54.5.
C2_PredictionIsClampedSum ==
    (shown.predicted /\ \A f \in PollutantInputs : inputs[f] >= 0) =>
        /\ FormSum <= 5000000 => shown.prediction = FormSum
        /\ FormSum > 5000000 => shown.prediction = 5000000
        /\ inputs = DefaultInputs => shown.prediction = 545000

\* C2 witness: a submission whose sum is 500.01 was predicted as 500.
C2_Witness ==
    /\ shown.predicted
    /\ \A f \in PollutantInputs : inputs[f] >= 0
    /\ FormSum = 5000100
    /\ shown.prediction = 5000000

\* C3: the category of a prediction in [0, 500] is Good up to 50, Moderate
\* above 50 up to 100, Poor above 100 up to 200, Very Poor above 200 up to
\* 300 and Severe above 300; each boundary belongs to the lower bucket.
C3_CategoryPartition ==
    (shown.predicted /\ 0 <= shown.prediction /\ shown.prediction <= 5000000) =>
        /\ shown.category = "Good" <=> shown.prediction <= 500000
        /\ shown.category = "Moderate"
              <=> (500000 < shown.prediction /\ shown.prediction <= 1000000)
        /\ shown.category = "Poor"
              <=> (1000000 < shown.prediction /\ shown.prediction <= 2000000)
        /\ shown.category = "Very Poor"
              <=> (2000000 < shown.prediction /\ shown.prediction <= 3000000)
        /\ shown.category = "Severe" <=> 3000000 < shown.prediction

\* C3 witness: a prediction of exactly 300 was put in Very Poor.
C3_Witness ==
    /\ shown.predicted
    /\ shown.prediction = 3000000
    /\ shown.category = "Very Poor"

DaysInMonth(y, m) ==
    IF m = 2 THEN (IF (y % 4 = 0 /\ y % 100 # 0) \/ y % 400 = 0 THEN 29 ELSE 28)
    ELSE IF m \in {4, 6, 9, 11} THEN 30 ELSE 31

NextDay(d) ==
    IF d[3] < DaysInMonth(d[1], d[2]) THEN <<d[1], d[2], d[3] + 1>>
    ELSE IF d[2] < 12 THEN <<d[1], d[2] + 1, 1>>
    ELSE <<d[1] + 1, 1, 1>>

\* C8: load_data(n) for n >= 1 returns exactly n rows; their dates start at
\* 2023-01-01 and each is the day after the one before; for n = 200 the
\* last date is 2023-07-19.
C8_DatesConsecutive ==
    \A n \in NRange :
        (n >= 1 /\ returned[n].kind # "none") =>
            /\ returned[n].kind = "ok"
            /\ Len(returned[n].value) = n
            /\ returned[n].value[1].date = <<2023, 1, 1>>
            /\ \A i \in 1 .. n - 1 :
                  returned[n].value[i + 1].date = NextDay(returned[n].value[i].date)
            /\ n = 200 => returned[n].value[n].date = <<2023, 7, 19>>

\* C8 witness: load_data(2) and load_data(200) have returned, and the
\* larger dataset steps from 28 February to 1 March.
C8_Witness ==
    /\ returned[2].kind = "ok"
    /\ returned[200].kind = "ok"
    /\ returned[200].value[59].date = <<2023, 2, 28>>
    /\ returned[200].value[60].date = <<2023, 3, 1>>

\* C9: once loaded, the dataset never changes, whatever the user does, and
\* a prediction is the clamped weighted sum of the six pollutant inputs of
\* its own submission.
C9_DatasetImmutable ==
    [][/\ df.loaded => df' = df
       /\ shown'.predicted =>
             shown'.prediction = (IF FormSum' > 5000000 THEN 5000000
                                  ELSE FormSum')]_vars

\* C9 witness: after changed weather and CO inputs, a prediction and a
\* cleared cache, the dataset is loaded and the prediction is on screen.
C9_Witness ==
    /\ df.loaded
    /\ \A n \in NRange : ~cache[n].hit
    /\ shown.predicted
    /\ inputs.temp = 0 - 1000
    /\ inputs.co = 5000
    /\ selected_pollutant = "O3"

\* The weighted sum of row i of the loaded dataset, in ten-thousandths.
RowSum(i) ==
    40 * df.rows[i].PM25 + 20 * df.rows[i].PM10 + 15 * df.rows[i].NO2
    + 10 * df.rows[i].SO2 + 1000 * df.rows[i].CO + 5 * df.rows[i].O3

\* C10: in every generated row the unclamped sum is at least 10.45 and below
\* 292.1, so the clip leaves it unchanged and no row is Severe; a form
\* submission whose sum exceeds 500 is clamped to 500.
C10_GeneratedSumNeverClamped ==
    /\ df.loaded =>
          \A i \in 1 .. Len(df.rows) :
              /\ 104500 <= RowSum(i)
              /\ RowSum(i) < 2921000
              /\ df.rows[i].AQI = RowSum(i)
              /\ df.rows[i].AQI <= 3000000
    /\ (shown.predicted /\ FormSum > 5000000) => shown.prediction = 5000000

\* C10 witness: the loaded dataset holds a row whose sum is 10.45 and one
\* whose sum is 292.0, and a form submission above 500 was clamped.
C10_Witness ==
    /\ df.loaded
    /\ \E i \in 1 .. Len(df.rows) : RowSum(i) = 104500
    /\ \E i \in 1 .. Len(df.rows) : RowSum(i) = 2920000
    /\ shown.predicted
    /\ FormSum > 5000000
    /\ shown.prediction = 5000000

====
